---- MODULE Spec2Model ----
(***************************************************************************)
(* A model of QSchematic::View (src/qschematic/view.cpp): the zoomable,    *)
(* pannable viewport of the schematic editor, its key, wheel and mouse     *)
(* handlers, scene attachment and scene-rect maintenance.                  *)
(*                                                                         *)
(* Numbers.  qreal coordinates are fixed point with FracBits fractional    *)
(* bits (One is 1.0).  QPoint/QRect coordinates are plain integers.  An    *)
(* actual zoom ratio is a rational [n, d].  The normalized zoom factor     *)
(* _scaleFactor is counted in units of 1/FUnits.  Logarithms are taken to  *)
(* base 2 (qLn(a)/qLn(b) does not depend on the base), and a zoom that is  *)
(* no power of two is rounded down to one by Log2.                         *)
(***************************************************************************)
EXTENDS Integers, Sequences, FiniteSets, TLC

VARIABLES
    _scene,         \* View::_scene: the attached scene, or NoScene (nullptr)
    _scaleFactor,   \* View::_scaleFactor, in units of 1/FUnits
    _mode,          \* View::_mode
    _panStart,      \* View::_panStart (QPointF, fixed point)
    transform,      \* QGraphicsView::transform(): [m11, dx, dy]
    anchor,         \* QGraphicsView::transformationAnchor()
    viewSceneRect,  \* QGraphicsView::sceneRect() (QRectF, fixed point)
    cursor,         \* viewport()->cursor()
    connections,    \* per scene: number of modeChanged lambdas connected
    sceneMode,      \* per scene: Scene::mode()
    notified,       \* per scene: the last modeChanged argument the view got
    items,          \* per scene: the items it holds
    selection,      \* per scene: selectedTopLevelItems(), in iteration order
    undoStack,      \* per scene: commands pushed on undoStack()
    lastEvent,      \* the event the last step handled
    emitted,        \* signals the view emitted during the last step
    sceneCalls,     \* calls the view made on a Scene during the last step
    delegated,      \* the last step called the QGraphicsView base handler
    accepted,       \* the last step called event->accept()
    cursorSets,     \* viewport()->setCursor calls during the last step
    rectUpdates,    \* updateSceneRect calls during the last step
    oldSceneRect,   \* sceneRect() before the last updateSceneRect call
    prevScaleFactor \* _scaleFactor before the last step

vars == <<_scene, _scaleFactor, _mode, _panStart, transform, anchor,
          viewSceneRect, cursor, connections, sceneMode, notified, items,
          selection, undoStack, lastEvent, emitted,
          sceneCalls, delegated, accepted, cursorSets, rectUpdates,
          oldSceneRect, prevScaleFactor>>

sceneVars == <<sceneMode, notified, items, selection, undoStack>>

-----------------------------------------------------------------------------
(* Bounds of the model *)

FracBits == 4
MaxOvershoot == 2
MaxPan == 6
MaxConnections == 2

-----------------------------------------------------------------------------
(* Arithmetic *)

RECURSIVE Pow2(_)
Pow2(n) == IF n <= 0 THEN 1 ELSE 2 * Pow2(n - 1)

One == Pow2(FracBits)

\* qRound of the real n/d (d > 0): half away from zero
qRound(n, d) ==
    IF n >= 0 THEN (2 * n + d) \div (2 * d)
    ELSE -((2 * (-n) + d) \div (2 * d))

Min(a, b) == IF a <= b THEN a ELSE b
Max(a, b) == IF a >= b THEN a ELSE b

Rat(n, d) == [n |-> n, d |-> d]
RatLeq(a, b) == a.n * b.d <= b.n * a.d
RatLess(a, b) == a.n * b.d < b.n * a.d
RatMin(a, b) == IF RatLess(b, a) THEN b ELSE a
RatEq(a, b) == a.n * b.d = b.n * a.d

\* 2^e as a rational
Exp2(e) == IF e >= 0 THEN Rat(Pow2(e), 1) ELSE Rat(1, Pow2(-e))

\* floor(log2(r)) of a positive rational
RECURSIVE Log2Floor(_)
Log2Floor(r) ==
    IF r.n >= r.d
    THEN IF r.n >= 2 * r.d THEN 1 + Log2Floor(Rat(r.n, 2 * r.d)) ELSE 0
    ELSE Log2Floor(Rat(2 * r.n, r.d)) - 1

\* log2(r) rounded to the nearest integer: e or e + 1 with 2^e <= r < 2^(e+1),
\* e + 1 when r^2 >= 2^(2e+1)
Log2(r) ==
    LET e == Log2Floor(r)
        h == Exp2(2 * e + 1)
    IN  IF RatLeq(h, Rat(r.n * r.n, r.d * r.d)) THEN e + 1 ELSE e

-----------------------------------------------------------------------------
(* Constants of view.hpp *)

FUnits == 4                     \* _scaleFactor 1.0 is FUnits
zoom_factor_min == Rat(1, 4)
zoom_factor_max == Rat(4, 1)
zoom_factor_step == 1           \* 0.25, in units of 1/FUnits
fitall_padding == 20

\* Scene::Mode
SceneNormalMode == "Scene::NormalMode"
SceneWireMode == "Scene::WireMode"
SceneUserMode == "Scene::UserMode"
SceneModes == {SceneNormalMode, SceneWireMode, SceneUserMode}

\* View::Mode
NormalMode == "NormalMode"
PanMode == "PanMode"

NoScene == "nullptr"
Scenes == {"A", "B", "C"}

\* The viewport's size in pixels
ViewportWidth == 200
ViewportHeight == 120

-----------------------------------------------------------------------------
(* Points, rectangles and transforms of the toolkit *)

Pt(x, y) == [x |-> x, y |-> y]
Rect(x, y, w, h) == [x |-> x, y |-> y, w |-> w, h |-> h]

\* QPointF::toPoint
toPoint(p) == Pt(qRound(p.x, One), qRound(p.y, One))

\* QPointF(const QPoint &)
toPointF(p) == Pt(p.x * One, p.y * One)

\* QRectF::toRect
toRect(r) ==
    LET nxp == qRound(r.x, One)
        nyp == qRound(r.y, One)
    IN  Rect(nxp, nyp,
             qRound(2 * r.w + (r.x - nxp * One), 2 * One),
             qRound(2 * r.h + (r.y - nyp * One), 2 * One))

\* QRectF(const QRect &)
toRectF(r) == Rect(r.x * One, r.y * One, r.w * One, r.h * One)

\* QRectF::isNull
isNull(r) == r.w = 0 /\ r.h = 0

\* QRectF::united
united(a, b) ==
    IF isNull(a) THEN b
    ELSE IF isNull(b) THEN a
    ELSE LET la == IF a.w < 0 THEN a.x + a.w ELSE a.x
             ra == IF a.w < 0 THEN a.x ELSE a.x + a.w
             ta == IF a.h < 0 THEN a.y + a.h ELSE a.y
             ba == IF a.h < 0 THEN a.y ELSE a.y + a.h
             lb == IF b.w < 0 THEN b.x + b.w ELSE b.x
             rb == IF b.w < 0 THEN b.x ELSE b.x + b.w
             tb == IF b.h < 0 THEN b.y + b.h ELSE b.y
             bb == IF b.h < 0 THEN b.y ELSE b.y + b.h
         IN  Rect(Min(la, lb), Min(ta, tb),
                  Max(ra, rb) - Min(la, lb), Max(ba, bb) - Min(ta, tb))

\* One axis of QRect::contains(const QRect &, bool proper): [x1, x2] against
\* [rx1, rx2], corners inclusive
containsAxis(x1, x2, rx1, rx2, proper) ==
    LET l1 == IF x2 < x1 - 1 THEN x2 + 1 ELSE x1
        r1 == IF x2 < x1 - 1 THEN x1 - 1 ELSE x2
        l2 == IF rx2 < rx1 - 1 THEN rx2 + 1 ELSE rx1
        r2 == IF rx2 < rx1 - 1 THEN rx1 - 1 ELSE rx2
    IN  IF proper THEN ~(l2 <= l1 \/ r2 >= r1) ELSE ~(l2 < l1 \/ r2 > r1)

\* QRect::contains(const QRect &r, bool proper)
contains(a, r, proper) ==
    /\ ~isNull(a)
    /\ ~isNull(r)
    /\ containsAxis(a.x, a.x + a.w - 1, r.x, r.x + r.w - 1, proper)
    /\ containsAxis(a.y, a.y + a.h - 1, r.y, r.y + r.h - 1, proper)

\* QTransform::fromScale(zoom, zoom)
fromScale(zoom) == [m11 |-> zoom, dx |-> 0, dy |-> 0]

\* QTransform::translate(dx, dy) of a scaling transform
translate(t, delta) ==
    [t EXCEPT !.dx = @ + (delta.x * t.m11.n) \div t.m11.d,
              !.dy = @ + (delta.y * t.m11.n) \div t.m11.d]

\* QGraphicsView::mapToScene(const QPoint &): the inverse of the transform
mapToScene(t, p) ==
    Pt(((p.x * One - t.dx) * t.m11.d) \div t.m11.n,
       ((p.y * One - t.dy) * t.m11.d) \div t.m11.n)

\* mapToScene(viewport()->rect()).boundingRect()
visibleRect(t) ==
    LET tl == mapToScene(t, Pt(0, 0))
        br == mapToScene(t, Pt(ViewportWidth, ViewportHeight))
    IN  Rect(tl.x, tl.y, br.x - tl.x, br.y - tl.y)

-----------------------------------------------------------------------------
(* Zoom *)

RECURSIVE GCD(_, _)
GCD(a, b) == IF b = 0 THEN a ELSE GCD(b, a % b)

\* A positive rational in lowest terms
Reduce(r) == LET g == GCD(r.n, r.d) IN Rat(r.n \div g, r.d \div g)

RatDiv(a, b) == Reduce(Rat(a.n * b.d, a.d * b.n))

\* qLn, to base 2
qLn(r) == Log2(r)

\* qExp, to base 2
qExp(e) == Exp2(e)

\* qBound(min, val, max)
qBound(lo, v, hi) == Max(lo, Min(hi, v))

\* setZoomValue: the normalized factor of an actual zoom ratio
setZoomValue(factor) ==
    (FUnits * (-qLn(RatDiv(zoom_factor_min, factor))))
        \div (-qLn(RatDiv(zoom_factor_min, zoom_factor_max)))

\* updateScale: the actual zoom of a normalized factor
zoomOf(sf) ==
    LET logMinZoom == qLn(zoom_factor_min)
        logMaxZoom == qLn(zoom_factor_max)
        logZoom == logMinZoom + ((logMaxZoom - logMinZoom) * sf) \div FUnits
    IN  qExp(logZoom)

\* The visible region, rounded and grown by 50 on each side
paddedVisible(t) ==
    LET rect == toRectF(toRect(visibleRect(t)))
    IN  Rect(rect.x - 50 * One, rect.y - 50 * One,
             rect.w + 100 * One, rect.h + 100 * One)

\* Mutant of updateSceneRect: the padded rect replaces the bounds
updateSceneRectReplaces(t, sr) ==
    LET rect == paddedVisible(t)
    IN  IF ~contains(toRect(sr), toRect(rect), TRUE) THEN rect ELSE sr

\* updateSceneRect: the new sceneRect()
updateSceneRect(t, sr) ==
    LET rect == paddedVisible(t)
    IN  IF ~contains(toRect(sr), toRect(rect), TRUE)
        THEN united(sr, rect)
        ELSE sr

\* updateScale with _scaleFactor = sf and sceneRect() = sr
updateScale(sf, sr) ==
    LET zoom == zoomOf(sf)
        t == fromScale(zoom)
    IN  [transform |-> t,
         sceneRect |-> updateSceneRect(t, sr),
         old |-> sr,
         zoom |-> zoom]

zoomChanged(zoom) == [sig |-> "zoomChanged", zoom |-> zoom, mode |-> ""]
modeChanged(m) == [sig |-> "modeChanged", zoom |-> Rat(0, 1), mode |-> m]

-----------------------------------------------------------------------------
(* Items of the scenes *)

ItemIds == {1, 2, 3}

\* item->boundingRect()
boundingRect(i) ==
    CASE i = 1 -> Rect(0, 0, 40 * One, 20 * One)
      [] i = 2 -> Rect(-5 * One, -5 * One, 40 * One, 20 * One)
      [] OTHER -> Rect(0, 0, 1200 * One, 100 * One)

\* item->scenePos()
scenePos(i) ==
    CASE i = 1 -> Pt(0, 0)
      [] i = 2 -> Pt(300 * One, 100 * One)
      [] OTHER -> Pt(0, 0)

\* QRectF::moveTo
moveTo(r, p) == [r EXCEPT !.x = p.x, !.y = p.y]

\* The combined bounding rect of all the items
RECURSIVE itemsRect(_)
itemsRect(S) ==
    IF S = {} THEN Rect(0, 0, 0, 0)
    ELSE LET i == CHOOSE j \in S : \A k \in S : j >= k
         IN  united(itemsRect(S \ {i}), moveTo(boundingRect(i), scenePos(i)))

\* QRectF::adjust(-adj, -adj, adj, adj)
adjust(r, adj) == Rect(r.x - adj, r.y - adj, r.w + 2 * adj, r.h + 2 * adj)

\* QGraphicsView::fitInView(rect, Qt::KeepAspectRatio): the scale it sets,
\* leaving a margin of 2 pixels; the scale is kept when rect is null
fitScale(rect, current) ==
    IF isNull(rect) \/ rect.w <= 0 \/ rect.h <= 0 THEN current
    ELSE RatMin(Reduce(Rat((ViewportWidth - 4) * One, rect.w)),
                Reduce(Rat((ViewportHeight - 4) * One, rect.h)))

\* viewport width / width of the viewport mapped to the scene
measuredScale(t) ==
    Reduce(Rat(ViewportWidth * One, visibleRect(t).w))

\* Mutant of capScale: no cap
capScaleNone(newScaleFactor, currentScaleFactor) == newScaleFactor

\* The cap of fitInView
capScale(newScaleFactor, currentScaleFactor) ==
    IF currentScaleFactor < FUnits
    THEN RatMin(newScaleFactor, Rat(1, 1))
    ELSE RatMin(newScaleFactor, Rat(currentScaleFactor, FUnits))

-----------------------------------------------------------------------------
(* The Scene collaborator (scene.hpp) as the view uses it *)

\* The lambda setScene connects to Scene::modeChanged: the cursor it leaves
onModeChanged(newMode, cur) ==
    CASE newMode = SceneNormalMode -> "ArrowCursor"
      [] newMode = SceneWireMode -> "CrossCursor"
      [] OTHER -> cur

\* The connections of scene s after setScene(s): connect() adds one, and
\* nothing disconnects
connect(conn, s) == [conn EXCEPT ![s] = @ + 1]

\* The number of connections made so far
Connected == connections["A"] + connections["B"] + connections["C"]

\* The lambdas a modeChanged signal of scene s runs
slotsOf(s) == connections[s]

\* Scene::setMode(m) emits modeChanged(m) when the mode changes
emitsModeChanged(s, m) == sceneMode[s] # m

call(op, item, mode) == [op |-> op, item |-> item, mode |-> mode]

\* Mutant of pushCalls: the selection iterated backwards
pushCallsReversed(sel) ==
    [k \in 1..Len(sel) |-> call("push ItemRemove", sel[Len(sel) + 1 - k], "")]

\* The calls of the Delete branch in Scene::NormalMode: one push per selected
\* item, in the order selectedTopLevelItems() gives them
pushCalls(sel) == [k \in 1..Len(sel) |-> call("push ItemRemove", sel[k], "")]

Range(f) == {f[k] : k \in DOMAIN f}

\* The sequences without repetition over a set, up to length 2
Orders(S) ==
    {<<>>} \cup {<<a>> : a \in S}
           \cup {p \in S \X S : p[1] # p[2]}

Ev(type, ctrl, key, button, pos, dy, scene) ==
    [type |-> type, ctrl |-> ctrl, key |-> key, button |-> button,
     pos |-> pos, dy |-> dy, scene |-> scene]

Keys == {"Plus", "Minus", "0", "W", "Space", "Escape", "Delete",
         "Backspace", "A"}
ZoomKeys == {"Plus", "Minus", "0"}
Buttons == {"MiddleButton", "LeftButton"}

\* Pointer positions (QPointF): whole and half pixels
Positions == {Pt(0, 0), Pt(5 * (One \div 2), One)}

InitItems ==
    [s \in Scenes |-> IF s = "A" THEN {} ELSE IF s = "B" THEN {1, 2} ELSE {3}]

-----------------------------------------------------------------------------
(* The state after View::View *)

\* The member initializers of view.hpp
InitialScene == NoScene
InitialMode == NormalMode

Init ==
    LET sf == setZoomValue(Rat(1, 1))
        r == updateScale(sf, Rect(0, 0, 0, 0))
    IN  /\ _scene = InitialScene
        /\ _scaleFactor = sf
        /\ _mode = InitialMode
        /\ _panStart = Pt(0, 0)
        /\ transform = r.transform
        /\ anchor = "AnchorUnderMouse"
        /\ viewSceneRect = r.sceneRect
        /\ cursor = "ArrowCursor"
        /\ connections = [s \in Scenes |-> 0]
        /\ sceneMode = [s \in Scenes |-> SceneNormalMode]
        /\ notified = [s \in Scenes |-> "none"]
        /\ items = InitItems
        /\ selection = [s \in Scenes |-> <<>>]
        /\ undoStack = [s \in Scenes |-> <<>>]
        /\ lastEvent = Ev("construct", FALSE, "", "", Pt(0, 0), 0, NoScene)
        /\ emitted = <<zoomChanged(r.zoom)>>
        /\ sceneCalls = <<>>
        /\ delegated = FALSE
        /\ accepted = FALSE
        /\ cursorSets = 0
        /\ rectUpdates = 1
        /\ oldSceneRect = r.old
        /\ prevScaleFactor = sf

-----------------------------------------------------------------------------
(* The handlers of the view *)

\* The step calls neither updateSceneRect nor updateScale
NoRescale ==
    /\ rectUpdates' = 0
    /\ prevScaleFactor' = _scaleFactor
    /\ UNCHANGED <<_scaleFactor, transform, anchor, viewSceneRect,
                   oldSceneRect>>

\* Mutant of keyDelegates: a handled key falls through to the base handler
keyDelegatesFallsThrough(handled, backspace, removesPoint) ==
    ~(backspace /\ removesPoint)

\* keyPressEvent hands the event to QGraphicsView::keyPressEvent: a key no
\* case returns for, and Backspace unless it removes a wire point
keyDelegates(handled, backspace, removesPoint) ==
    ~handled /\ ~(backspace /\ removesPoint)

\* View::keyPressEvent
keyPressEvent(ctrl, key) ==
    LET s == _scene
        hasScene == s # NoScene
        zoomIn == ctrl /\ key = "Plus"
        zoomOut == ctrl /\ key = "Minus"
        reset == ctrl /\ key = "0"
        wire == ctrl /\ key = "W"
        space == ctrl /\ key = "Space"
        ctrlHandled == zoomIn \/ zoomOut \/ reset \/ wire \/ space
        escape == ~ctrlHandled /\ key = "Escape"
        delete == ~ctrlHandled /\ key = "Delete"
        backspace == ~ctrlHandled /\ key = "Backspace"
        sf == IF zoomIn THEN _scaleFactor + zoom_factor_step
              ELSE IF zoomOut THEN _scaleFactor - zoom_factor_step
              ELSE IF reset THEN setZoomValue(Rat(1, 1))
              ELSE _scaleFactor
        scaled == zoomIn \/ zoomOut \/ reset
        r1 == updateScale(sf, viewSceneRect)
        r2 == updateScale(sf, r1.sceneRect)
        r == IF reset THEN r2 ELSE r1
        target == IF wire THEN SceneWireMode ELSE SceneNormalMode
        setsMode == hasScene /\ (wire \/ escape)
        fires == setsMode /\ emitsModeChanged(s, target)
        deletes == hasScene /\ delete /\ sceneMode[s] = SceneNormalMode
        removesPoint ==
            /\ hasScene
            /\ \/ delete /\ sceneMode[s] # SceneNormalMode
               \/ backspace /\ sceneMode[s] = SceneWireMode
        sel == IF deletes THEN selection[s] ELSE <<>>
        fallback ==
            keyDelegates(ctrlHandled \/ escape \/ delete, backspace,
                         removesPoint)
        pushes == pushCalls(sel)
    IN  /\ (zoomIn \/ zoomOut) =>
               (-MaxOvershoot <= sf /\ sf <= FUnits + MaxOvershoot)
        /\ _scaleFactor' = sf
        /\ transform' = IF scaled THEN r.transform ELSE transform
        /\ anchor' = IF scaled THEN "AnchorUnderMouse" ELSE anchor
        /\ viewSceneRect' = IF scaled THEN r.sceneRect ELSE viewSceneRect
        /\ rectUpdates' = IF reset THEN 2 ELSE IF scaled THEN 1 ELSE 0
        /\ oldSceneRect' = IF scaled THEN r.old ELSE oldSceneRect
        /\ prevScaleFactor' = _scaleFactor
        /\ emitted' = IF reset
                      THEN <<zoomChanged(r1.zoom), zoomChanged(r2.zoom)>>
                      ELSE IF scaled THEN <<zoomChanged(r1.zoom)>> ELSE <<>>
        /\ sceneMode' = IF setsMode THEN [sceneMode EXCEPT ![s] = target]
                        ELSE sceneMode
        /\ notified' = IF fires /\ slotsOf(s) > 0
                       THEN [notified EXCEPT ![s] = target]
                       ELSE notified
        /\ cursor' = IF fires /\ slotsOf(s) > 0
                     THEN onModeChanged(target, cursor) ELSE cursor
        /\ cursorSets' = IF fires THEN slotsOf(s) ELSE 0
        /\ items' =
               IF deletes
               THEN [items EXCEPT
                        ![s] = @ \ {pushes[k].item : k \in 1..Len(pushes)}]
               ELSE items
        /\ selection' = IF deletes THEN [selection EXCEPT ![s] = <<>>]
                        ELSE selection
        /\ undoStack' =
               IF deletes
               THEN [undoStack EXCEPT
                        ![s] = @ \o [k \in 1..Len(pushes) |-> pushes[k].item]]
               ELSE undoStack
        /\ sceneCalls' =
               IF ~hasScene THEN <<>>
               ELSE IF wire \/ escape THEN <<call("setMode", 0, target)>>
               ELSE IF space THEN <<call("toggleWirePosture", 0, "")>>
               ELSE IF delete
               THEN <<call("mode", 0, "")>> \o
                    (IF deletes
                     THEN <<call("selectedTopLevelItems", 0, "")>> \o pushes
                     ELSE <<call("removeLastWirePoint", 0, "")>>)
               ELSE IF backspace
               THEN <<call("mode", 0, "")>> \o
                    (IF removesPoint
                     THEN <<call("removeLastWirePoint", 0, "")>> ELSE <<>>)
               ELSE <<>>
        /\ delegated' = fallback
        /\ accepted' = FALSE
        /\ lastEvent' = Ev("key", ctrl, key, "", Pt(0, 0), 0, NoScene)
        /\ UNCHANGED <<_scene, _mode, _panStart, connections>>

\* View::wheelEvent; dy is the sign of angleDelta().y()
wheelEvent(ctrl, dy) ==
    LET stepped == IF dy > 0 THEN _scaleFactor + zoom_factor_step
                   ELSE IF dy < 0 THEN _scaleFactor - zoom_factor_step
                   ELSE _scaleFactor
        sf == qBound(0, stepped, FUnits)
        r == updateScale(sf, viewSceneRect)
    IN  /\ IF ctrl
           THEN /\ _scaleFactor' = sf
                /\ transform' = r.transform
                /\ anchor' = "AnchorUnderMouse"
                /\ viewSceneRect' = r.sceneRect
                /\ rectUpdates' = 1
                /\ oldSceneRect' = r.old
                /\ prevScaleFactor' = _scaleFactor
                /\ emitted' = <<zoomChanged(r.zoom)>>
           ELSE /\ NoRescale
                /\ emitted' = <<>>
        /\ sceneCalls' = <<>>
        /\ delegated' = FALSE
        /\ accepted' = FALSE
        /\ cursorSets' = 0
        /\ lastEvent' = Ev("wheel", ctrl, "", "", Pt(0, 0), dy, NoScene)
        /\ UNCHANGED <<_scene, _mode, _panStart, cursor, connections>>
        /\ UNCHANGED sceneVars

\* Mutant of panDelta: from the pointer to the anchor
panDeltaReversed(t, pos, start) ==
    LET a == mapToScene(t, toPoint(pos))
        b == mapToScene(t, toPoint(start))
    IN  Pt(b.x - a.x, b.y - a.y)

\* The scene-space delta of a pan move: from the anchor to the pointer
panDelta(t, pos, start) ==
    LET a == mapToScene(t, toPoint(pos))
        b == mapToScene(t, toPoint(start))
    IN  Pt(a.x - b.x, a.y - b.y)

\* View::mouseMoveEvent; pos is event->position()
mouseMoveEvent(pos) ==
    LET delta == panDelta(transform, pos, _panStart)
        t == translate(transform, delta)
    IN  /\ IF _mode = PanMode
           THEN /\ t.dx <= MaxPan * One /\ -t.dx <= MaxPan * One
                /\ t.dy <= MaxPan * One /\ -t.dy <= MaxPan * One
                /\ anchor' = "NoAnchor"
                /\ transform' = t
                /\ _panStart' = pos
                /\ accepted' = TRUE
                /\ viewSceneRect' = updateSceneRect(t, viewSceneRect)
                /\ rectUpdates' = 1
                /\ oldSceneRect' = viewSceneRect
                /\ prevScaleFactor' = _scaleFactor
                /\ UNCHANGED _scaleFactor
           ELSE /\ NoRescale
                /\ accepted' = FALSE
                /\ UNCHANGED _panStart
        /\ delegated' = TRUE
        /\ emitted' = <<>>
        /\ sceneCalls' = <<>>
        /\ cursorSets' = 0
        /\ lastEvent' = Ev("move", FALSE, "", "", pos, 0, NoScene)
        /\ UNCHANGED <<_scene, _mode, cursor, connections>>
        /\ UNCHANGED sceneVars

\* View::setMode
setMode(newMode) ==
    /\ _mode' = newMode
    /\ emitted' = <<modeChanged(newMode)>>

\* View::mousePressEvent; pos is event->position()
mousePressEvent(button, pos) ==
    /\ IF button = "MiddleButton"
       THEN /\ setMode(PanMode)
            /\ _panStart' = toPointF(toPoint(pos))
            /\ cursor' = "ClosedHandCursor"
            /\ cursorSets' = 1
            /\ accepted' = TRUE
            /\ delegated' = FALSE
       ELSE /\ delegated' = TRUE
            /\ accepted' = FALSE
            /\ cursorSets' = 0
            /\ emitted' = <<>>
            /\ UNCHANGED <<_mode, _panStart, cursor>>
    /\ NoRescale
    /\ sceneCalls' = <<>>
    /\ lastEvent' = Ev("press", FALSE, "", button, pos, 0, NoScene)
    /\ UNCHANGED <<_scene, connections>>
    /\ UNCHANGED sceneVars

\* View::mouseReleaseEvent
mouseReleaseEvent(button, pos) ==
    /\ IF button = "MiddleButton"
       THEN /\ setMode(NormalMode)
            /\ cursor' = "ArrowCursor"
            /\ cursorSets' = 1
            /\ accepted' = TRUE
            /\ delegated' = FALSE
       ELSE /\ delegated' = TRUE
            /\ accepted' = FALSE
            /\ cursorSets' = 0
            /\ emitted' = <<>>
            /\ UNCHANGED <<_mode, cursor>>
    /\ NoRescale
    /\ sceneCalls' = <<>>
    /\ lastEvent' = Ev("release", FALSE, "", button, pos, 0, NoScene)
    /\ UNCHANGED <<_scene, _panStart, connections>>
    /\ UNCHANGED sceneVars

\* View::setScene
setScene(scene) ==
    /\ scene # NoScene => Connected < MaxConnections
    /\ connections' = IF scene # NoScene THEN connect(connections, scene)
                      ELSE connections
    /\ _scene' = scene
    /\ NoRescale
    /\ emitted' = <<>>
    /\ sceneCalls' = <<>>
    /\ delegated' = FALSE
    /\ accepted' = FALSE
    /\ cursorSets' = 0
    /\ lastEvent' = Ev("setScene", FALSE, "", "", Pt(0, 0), 0, scene)
    /\ UNCHANGED <<_mode, _panStart, cursor>>
    /\ UNCHANGED sceneVars

\* View::fitInView
fitInView ==
    LET rect == adjust(itemsRect(items[_scene]),
                       Max(0, fitall_padding) * One)
        fitted == fromScale(fitScale(rect, transform.m11))
        newScaleFactor == capScale(measuredScale(fitted), _scaleFactor)
        sf == setZoomValue(newScaleFactor)
        r == updateScale(sf, viewSceneRect)
    IN  /\ IF _scene = NoScene
           THEN /\ NoRescale
                /\ emitted' = <<>>
                /\ sceneCalls' = <<>>
           ELSE /\ _scaleFactor' = sf
                /\ transform' = r.transform
                /\ anchor' = "AnchorUnderMouse"
                /\ viewSceneRect' = r.sceneRect
                /\ rectUpdates' = 1
                /\ oldSceneRect' = r.old
                /\ prevScaleFactor' = _scaleFactor
                /\ emitted' = <<zoomChanged(r.zoom)>>
                /\ sceneCalls' = <<call("items", 0, "")>>
        /\ delegated' = FALSE
        /\ accepted' = FALSE
        /\ cursorSets' = 0
        /\ lastEvent' = Ev("fitInView", FALSE, "", "", Pt(0, 0), 0, NoScene)
        /\ UNCHANGED <<_scene, _mode, _panStart, cursor, connections>>
        /\ UNCHANGED sceneVars

-----------------------------------------------------------------------------
(* What the application does to a scene *)

NoViewCall ==
    /\ NoRescale
    /\ emitted' = <<>>
    /\ sceneCalls' = <<>>
    /\ delegated' = FALSE
    /\ accepted' = FALSE
    /\ UNCHANGED <<_scene, _mode, _panStart, connections>>

\* Scene::setMode(m) called on scene s by the application
SceneSetMode(s, m) ==
    /\ emitsModeChanged(s, m)
    /\ sceneMode' = [sceneMode EXCEPT ![s] = m]
    /\ notified' = IF slotsOf(s) > 0 THEN [notified EXCEPT ![s] = m]
                   ELSE notified
    /\ cursor' = IF slotsOf(s) > 0 THEN onModeChanged(m, cursor) ELSE cursor
    /\ cursorSets' = IF m \in {SceneNormalMode, SceneWireMode}
                     THEN slotsOf(s) ELSE 0
    /\ NoViewCall
    /\ lastEvent' = Ev("sceneModeChanged", FALSE, "", "", Pt(0, 0), 0, s)
    /\ UNCHANGED <<items, selection, undoStack>>

\* The user selects items of scene s
SceneSelect(s, sel) ==
    /\ sel # selection[s]
    /\ Range(sel) \subseteq items[s]
    /\ selection' = [selection EXCEPT ![s] = sel]
    /\ NoViewCall
    /\ cursorSets' = 0
    /\ lastEvent' = Ev("select", FALSE, "", "", Pt(0, 0), 0, s)
    /\ UNCHANGED <<cursor, sceneMode, notified, items, undoStack>>

-----------------------------------------------------------------------------
(* Specifications *)

\* Zoom by key, by wheel and by fitting, with scenes attached and detached
Next ==
    \/ \E key \in ZoomKeys : keyPressEvent(TRUE, key)
    \/ keyPressEvent(FALSE, "Plus")
    \/ \E dy \in {-1, 0, 1} : wheelEvent(TRUE, dy)
    \/ wheelEvent(FALSE, 1)
    \/ \E scene \in {NoScene} \cup Scenes : setScene(scene)
    \/ fitInView

Spec == Init /\ [][Next]_vars

\* Panning with the middle button at the zoom levels of the wheel
NextPan ==
    \/ \E dy \in {-1, 1} : wheelEvent(TRUE, dy)
    \/ \E pos \in Positions : mouseMoveEvent(pos)
    \/ \E pos \in Positions : mousePressEvent("MiddleButton", pos)
    \/ mousePressEvent("LeftButton", Pt(0, 0))
    \/ \E button \in Buttons : mouseReleaseEvent(button, Pt(0, 0))

SpecPan == Init /\ [][NextPan]_vars

\* The keys that act on the scene, with a scene attached and without
NextKeys ==
    \/ \E ctrl \in BOOLEAN, key \in Keys \ ZoomKeys : keyPressEvent(ctrl, key)
    \/ mousePressEvent("MiddleButton", Pt(One, One))
    \/ \E scene \in {NoScene, "B"} : setScene(scene)
    \/ \E m \in SceneModes : SceneSetMode("B", m)
    \/ \E sel \in Orders(items["B"]) : SceneSelect("B", sel)

SpecKeys == Init /\ [][NextKeys]_vars

\* The cursor under scene attachment, scene modes and pan gestures
NextCursor ==
    \/ keyPressEvent(TRUE, "W")
    \/ keyPressEvent(FALSE, "Escape")
    \/ mousePressEvent("MiddleButton", Pt(0, 0))
    \/ mouseReleaseEvent("MiddleButton", Pt(0, 0))
    \/ \E scene \in {NoScene, "A", "B"} : setScene(scene)
    \/ \E s \in {"A", "B"}, m \in SceneModes : SceneSetMode(s, m)

SpecCursor == Init /\ [][NextCursor]_vars

-----------------------------------------------------------------------------
(* Properties *)

IsKey(e, ctrl, key) == e.type = "key" /\ e.ctrl = ctrl /\ e.key = key
IsMiddle(e, type) == e.type = type /\ e.button = "MiddleButton"

\* a lies within b (closed rectangles)
Inside(a, b) ==
    /\ b.x <= a.x /\ a.x + a.w <= b.x + b.w
    /\ b.y <= a.y /\ a.y + a.h <= b.y + b.h

\* The smallest rectangle holding a and b
Hull(a, b) ==
    Rect(Min(a.x, b.x), Min(a.y, b.y),
         Max(a.x + a.w, b.x + b.w) - Min(a.x, b.x),
         Max(a.y + a.h, b.y + b.h) - Min(a.y, b.y))

\* r grown by 50 on each side
Grown(r) == Rect(r.x - 50 * One, r.y - 50 * One,
                 r.w + 100 * One, r.h + 100 * One)

\* C1: in every reachable state the normalized zoom factor lies in [0, 1].
C1_ScaleFactorInRange == 0 <= _scaleFactor /\ _scaleFactor <= FUnits

\* C2: a Ctrl+wheel-up event leaves the normalized factor greater than or
\* equal to its value before the event, and never above 1.0.
C2_WheelUpMonotone ==
    [][(lastEvent'.type = "wheel" /\ lastEvent'.ctrl /\ lastEvent'.dy > 0)
          => (_scaleFactor' >= _scaleFactor /\ _scaleFactor' <= FUnits)]_vars

\* Scene points the pan property probes
Probes == {Pt(0, 0), Pt(ViewportWidth, ViewportHeight), Pt(7, 3)}

\* The scene point under a view position that is not rounded to a pixel
mapToSceneExact(t, p) ==
    Pt(((p.x - t.dx) * t.m11.d) \div t.m11.n,
       ((p.y - t.dy) * t.m11.d) \div t.m11.n)

\* The pan property, with the scene points a and b under the pointer and under
\* the anchor before the move
PanGesture(a, b) ==
    LET e == lastEvent'
    IN  /\ IsMiddle(e, "press") => _mode' = PanMode
        /\ IsMiddle(e, "release") => _mode' = NormalMode
        /\ ~(IsMiddle(e, "press") \/ IsMiddle(e, "release")) => _mode' = _mode
        /\ (e.type = "move" /\ _mode = PanMode) =>
               /\ transform'.m11 = transform.m11
               /\ \A p \in Probes :
                      mapToScene(transform', p) =
                          Pt(mapToScene(transform, p).x - (a.x - b.x),
                             mapToScene(transform, p).y - (a.y - b.y))
               /\ _panStart' = e.pos
        /\ (e.type = "move" /\ _mode = NormalMode) =>
               /\ transform' = transform
               /\ _panStart' = _panStart

\* C3 (as the claim states it): the mode is Normal at first, Pan after a
\* middle-button press and Normal after a middle-button release, and no other
\* event changes it; a move in Pan mode shifts the scene point under every view
\* point by the scene-space delta from the pan anchor to the move position,
\* keeps the zoom, and leaves the anchor at the move position; a move in Normal
\* mode changes neither the transform nor the anchor.
C3_PanByExactDelta ==
    /\ _mode = NormalMode
    /\ [][PanGesture(mapToSceneExact(transform, lastEvent'.pos),
                     mapToSceneExact(transform, _panStart))]_vars

\* C3 (amended): the same, with the delta taken between the move position and
\* the pan anchor each rounded to a whole pixel (event->pos() and
\* _panStart.toPoint()); the anchor is left at the unrounded move position.
C3_PanGesture ==
    /\ _mode = NormalMode
    /\ [][PanGesture(mapToScene(transform, toPoint(lastEvent'.pos)),
                     mapToScene(transform, toPoint(_panStart)))]_vars

\* C3 witness: a move in Pan mode has translated the view and moved the anchor
C3_Witness ==
    /\ lastEvent.type = "move"
    /\ _mode = PanMode
    /\ accepted
    /\ transform.dx # 0 /\ transform.dy # 0
    /\ _panStart = lastEvent.pos
    /\ _panStart # toPointF(toPoint(_panStart))

IsPush(c) == c.op = "push ItemRemove"
IsMutating(c) ==
    c.op \in {"push ItemRemove", "removeLastWirePoint", "setMode",
              "toggleWirePosture"}

\* C4: Delete with a scene in Normal mode and N selected top-level items
\* pushes exactly N remove-item commands, one per selected item in iteration
\* order, makes no other mutating Scene call, and with N = 0 leaves the undo
\* stack unchanged.
C4_DeletePushes ==
    [][(lastEvent'.type = "key" /\ lastEvent'.key = "Delete"
          /\ _scene # NoScene /\ sceneMode[_scene] = SceneNormalMode) =>
          LET sel == selection[_scene]
              pushes == SelectSeq(sceneCalls', IsPush)
          IN  /\ Len(pushes) = Len(sel)
              /\ \A k \in 1..Len(sel) : pushes[k].item = sel[k]
              /\ \A k \in 1..Len(sceneCalls') :
                     IsMutating(sceneCalls'[k]) => IsPush(sceneCalls'[k])
              /\ undoStack'[_scene] = undoStack[_scene] \o sel
              /\ sel = <<>> => undoStack' = undoStack]_vars

\* C4 witness: Delete has pushed two commands, for item 2 and then item 1
C4_Witness ==
    /\ lastEvent.type = "key" /\ lastEvent.key = "Delete"
    /\ _scene = "B"
    /\ SelectSeq(sceneCalls, IsPush) =
           <<call("push ItemRemove", 2, ""), call("push ItemRemove", 1, "")>>
    /\ undoStack["B"] = <<2, 1>>

\* C5 (as the claim states it): after every updateSceneRect call the new
\* bounds contain the old ones and, when the visible region grown by 50 is not
\* contained in the old bounds, equal the union of the two, and are unchanged
\* otherwise.
C5_UnionWithPaddedVisible ==
    rectUpdates > 0 =>
        LET padded == Grown(visibleRect(transform))
        IN  /\ Inside(oldSceneRect, viewSceneRect)
            /\ IF ~Inside(padded, oldSceneRect)
               THEN viewSceneRect = Hull(oldSceneRect, padded)
               ELSE viewSceneRect = oldSceneRect

\* C5 (amended): the same, with the visible region rounded to whole scene
\* units (QRectF::toRect) before it is grown by 50.
C5_UnionWithRoundedPadded ==
    rectUpdates > 0 =>
        LET padded == Grown(toRectF(toRect(visibleRect(transform))))
        IN  /\ Inside(oldSceneRect, viewSceneRect)
            /\ IF ~Inside(padded, oldSceneRect)
               THEN viewSceneRect = Hull(oldSceneRect, padded)
               ELSE viewSceneRect = oldSceneRect

\* C5 witness: a pan move has grown the bounds to the union
C5_Witness ==
    /\ rectUpdates > 0
    /\ lastEvent.type = "move"
    /\ viewSceneRect # oldSceneRect
    /\ viewSceneRect =
           Hull(oldSceneRect, Grown(toRectF(toRect(visibleRect(transform)))))
    /\ visibleRect(transform) # toRectF(toRect(visibleRect(transform)))

\* C6: fitAll with no scene attached, or with an attached scene that holds no
\* items, changes neither the zoom factor, the transform nor the scene bounds
\* and emits no zoom-changed notification.
C6_FitAllNothingToFit ==
    [][(lastEvent'.type = "fitInView"
          /\ (_scene = NoScene \/ items[_scene] = {})) =>
          /\ UNCHANGED <<_scaleFactor, transform, viewSceneRect>>
          /\ emitted' = <<>>]_vars

\* C7: a mode-changed notification of a scene that is not the attached one
\* leaves the cursor alone, and one of the attached scene sets it exactly once
\* (Normal: arrow, Wire: crosshair) or not at all (other modes).
C7_OnlyAttachedSceneSetsCursor ==
    [][lastEvent'.type = "sceneModeChanged" =>
          LET s == lastEvent'.scene
              m == sceneMode'[s]
          IN  IF s # _scene
              THEN cursor' = cursor /\ cursorSets' = 0
              ELSE /\ m = SceneNormalMode =>
                          cursor' = "ArrowCursor" /\ cursorSets' = 1
                   /\ m = SceneWireMode =>
                          cursor' = "CrossCursor" /\ cursorSets' = 1
                   /\ m = SceneUserMode =>
                          cursor' = cursor /\ cursorSets' = 0]_vars

\* The actual zoom of the view
ActualZoom(t) == t.m11

\* C8: fitAll from an actual zoom below 1.0 ends at an actual zoom of at most
\* 1.0, and from an actual zoom above 1.0 at an actual zoom of at most the one
\* before.
C8_FitAllCapsZoom ==
    [][lastEvent'.type = "fitInView" =>
          /\ RatLess(ActualZoom(transform), Rat(1, 1))
                 => RatLeq(ActualZoom(transform'), Rat(1, 1))
          /\ RatLess(Rat(1, 1), ActualZoom(transform))
                 => RatLeq(ActualZoom(transform'), ActualZoom(transform))]_vars

\* C8 witness: fitAll on the empty scene, whose fit is above 1.0, from a view
\* zoomed out below 1.0 has ended at 1.0
C8_Witness ==
    /\ lastEvent.type = "fitInView"
    /\ _scene = "A"
    /\ RatLess(zoomOf(prevScaleFactor), Rat(1, 1))
    /\ RatEq(ActualZoom(transform), Rat(1, 1))
    /\ emitted = <<zoomChanged(Rat(1, 1))>>

SceneKey(e) ==
    \/ e.key \in {"Escape", "Delete"}
    \/ e.ctrl /\ e.key \in {"W", "Space"}

\* C9: with no scene attached, Ctrl+W, Ctrl+Space, Escape and Delete call no
\* Scene, are not handed to the host widget, and change neither the zoom
\* factor, the mode, the pan anchor, the scene reference nor any scene;
\* Backspace is handed to the host widget's key handling.
C9_NoSceneKeys ==
    [][(lastEvent'.type = "key" /\ _scene = NoScene) =>
          /\ SceneKey(lastEvent') =>
                 /\ sceneCalls' = <<>>
                 /\ ~delegated'
                 /\ emitted' = <<>>
                 /\ UNCHANGED <<_scaleFactor, _mode, _panStart, _scene,
                                transform, cursor>>
                 /\ UNCHANGED sceneVars
          /\ lastEvent'.key = "Backspace" =>
                 /\ delegated'
                 /\ sceneCalls' = <<>>
                 /\ UNCHANGED sceneVars]_vars

\* C9 witness: Delete without a scene did nothing, in Pan mode with the anchor
\* set
C9_Witness ==
    /\ IsKey(lastEvent, FALSE, "Delete")
    /\ _scene = NoScene
    /\ ~delegated
    /\ sceneCalls = <<>>
    /\ _mode = PanMode
    /\ _panStart = Pt(One, One)

\* C10: whenever the view is in Normal mode and the last mode-changed
\* notification it got from the attached scene was Wire, the cursor is the
\* crosshair.
C10_CursorFollowsSceneMode ==
    (_mode = NormalMode /\ _scene # NoScene
        /\ notified[_scene] = SceneWireMode) => cursor = "CrossCursor"

====
